---------------------------- MODULE Spec2Model ----------------------------
(***************************************************************************)
(* State-machine model of simulate_msd, the tick loop that simulates the   *)
(* magic state preparation cycle of a cultivation + MSD scheme             *)
(* (src/msd_magic_prep_cycle_simulation.py).                               *)
(*                                                                         *)
(* One behaviour is one call of simulate_msd.  Init draws the parameters   *)
(* and builds the state of lines 92-103; the loop body of lines 113-189 is *)
(* cut at its statement boundaries: the clock increments (LoopTop), one    *)
(* step per patch of the transition pass, the consumption test and the     *)
(* loop exit test (Consume / NoConsume), and the return (ReturnAll /       *)
(* ReturnReduced).  A Bernoulli draw is a nondeterministic choice among    *)
(* the outcomes np.random.choice can give for the probability.             *)
(***************************************************************************)
EXTENDS Integers, Sequences, FiniteSets

\* ------------------------------------------------------------------ bounds
MaxD == 2          \* dcult and dm range over 1..MaxD
MaxNm == 2         \* Nm ranges over 1..MaxNm
MaxTCult == 3      \* t_cult ranges over 8 and 8*k - 3 for k in 2..MaxTCult
MaxStages == 3     \* num_stages ranges over 1..MaxStages
MaxTicks == 8      \* the loop is followed for at most MaxTicks ticks
MaxFails == 2      \* the loop is followed while at most MaxFails draws came out False

\* --------------------------------------------------------------- encodings
\* Python's None as a patch status (line 9) and as an empty idling slot (line 99).
None == "None"
NoPatch == 0
\* psucc_growing = None (line 25); probabilities are in percent.
NoProb == -1
Groups == {0, 1}
Statuses == {None, "cult", "growing", "idling", "consumed"}

VARIABLES
    dcult, dm, Nm, psucc_cult, t_cult, post_selected_growing, psucc_growing,
    num_stages,                 \* the parameters of the call
    patches,                    \* all_patches: index -> [status, clock]
    idling_patches,             \* group -> patch index or NoPatch
    Ts_idle, Ts_intv,           \* the sample streams
    stage_clock, cult_clock,    \* the global and per-group clocks
    consumable,                 \* the flag of line 120 for the current tick
    pc, i,                      \* position in the loop, patch under the rule
    result,                     \* what the call returned or raised
    ticks, last_start,          \* history: ticks executed, tick of the last
                                \* cultivation start of each group,
    fails,                      \* the number of draws that came out False,
    displaced,                  \* the patch the last rule step pushed out
                                \* of its idling slot (NoPatch if none),
    rule,                       \* the branch of lines 123-165 the last rule
                                \* step took,
    overtaken                   \* and, per patch waiting in status None, the
                                \* cultivation starts of lower-index patches
                                \* of its group since it began to wait

params == <<dcult, dm, Nm, psucc_cult, t_cult, post_selected_growing,
            psucc_growing, num_stages>>
vars == <<dcult, dm, Nm, psucc_cult, t_cult, post_selected_growing,
          psucc_growing, num_stages, patches, idling_patches,
          Ts_idle, Ts_intv, stage_clock, cult_clock, consumable, pc, i,
          result, ticks, last_start, fails, displaced, rule, overtaken>>

\* ------------------------------------------------------ parameter derivation
\* math.ceil of the rational n/d, d > 0.
Ceil(n, d) == -((-n) \div d)

\* Mutant of line 75: the guard epsilon is added instead of subtracted.
T_cult_EpsAdded == Ceil(t_cult * 1000000 + 8, 8 * 1000000)

\* line 75: ceil(t_cult / 8 - 1e-6), as the rational (t_cult*10^6 - 8)/(8*10^6)
T_cult == Ceil(t_cult * 1000000 - 8, 8 * 1000000)

\* Mutant of line 76: equal distances count as growth (>= for >).
need_growing_OrEqual == dm >= dcult

\* line 76
need_growing == dm > dcult

\* line 77
Tm == Ceil(T_cult, Nm)

\* line 79: the rebinding of post_selected_growing
post_selected == post_selected_growing /\ need_growing

\* Mutant of line 80: the duration follows need_growing, not the
\* post-selection flag.
T_growing_OfNeed == IF need_growing THEN dm ELSE 1

\* line 80
T_growing == IF post_selected THEN dm ELSE 1

Patches == 1 .. (2 * Nm)

\* AuxPatch.group of all_patches = left_patches + right_patches (lines 92-94)
Group(p) == IF p <= Nm THEN 0 ELSE 1

\* Mutant of lines 13-15: line 15, the reset of the patch clock, is lost.
change_status_KeepClock(ps, p, status) ==
    [ps EXCEPT ![p] = [status |-> status, clock |-> ps[p].clock]]

\* AuxPatch.change_status (lines 13-15)
change_status(ps, p, status) ==
    [ps EXCEPT ![p] = [status |-> status, clock |-> 0]]

\* Mutant of line 120: the gate opens one tick early (>= for >).
Consumable_AtDm(sc, intv) == sc >= dm \/ intv = <<>>

\* Mutant of line 120: after the first interval the window never opens.
Consumable_FirstOnly(sc, intv) == intv = <<>>

\* line 120
Consumable(sc, intv) == sc > dm \/ intv = <<>>

\* Mutant of lines 105-111: line 109, the reset of the group's clock, is lost.
start_cult_or_not_NoReset(ps, cc, p) ==
    LET group == Group(p) IN
    IF cc[group] >= Tm
    THEN [patches |-> change_status(ps, p, "cult"), cult_clock |-> cc]
    ELSE IF ps[p].status # None
    THEN [patches |-> change_status(ps, p, None), cult_clock |-> cc]
    ELSE [patches |-> ps, cult_clock |-> cc]

\* start_cult_or_not (lines 105-111) on patch p, as a function of the patches
\* and the cultivation clocks.
start_cult_or_not(ps, cc, p) ==
    LET group == Group(p) IN
    IF cc[group] >= Tm
    THEN [patches |-> change_status(ps, p, "cult"),
          cult_clock |-> [cc EXCEPT ![group] = 0]]
    ELSE IF ps[p].status # None
    THEN [patches |-> change_status(ps, p, None), cult_clock |-> cc]
    ELSE [patches |-> ps, cult_clock |-> cc]

\* Mutant of lines 138-142 and 156-160: the previous occupant of the slot is
\* not rescheduled (lines 139-140 and 157-158 are lost).
Occupy_NoDisplace(ps, cc, idl, p) ==
    [patches |-> change_status(ps, p, "idling"),
     cult_clock |-> cc,
     idling_patches |-> [idl EXCEPT ![Group(p)] = p]]

\* Mutant of lines 138-142 and 156-160: the previous occupant is demoted to
\* None without being offered the cultivation clock.
Occupy_DemoteOnly(ps, cc, idl, p) ==
    LET prev_idling_patch == idl[Group(p)]
        ps1 == IF prev_idling_patch # NoPatch
               THEN change_status(ps, prev_idling_patch, None) ELSE ps
    IN [patches |-> change_status(ps1, p, "idling"),
        cult_clock |-> cc,
        idling_patches |-> [idl EXCEPT ![Group(p)] = p]]

\* Mutant of lines 138-142 and 156-160: the occupant looked up and
\* rescheduled is the one of the other group's slot.
Occupy_OtherGroup(ps, cc, idl, p) ==
    LET prev_idling_patch == idl[1 - Group(p)]
        s == IF prev_idling_patch # NoPatch
             THEN start_cult_or_not(ps, cc, prev_idling_patch)
             ELSE [patches |-> ps, cult_clock |-> cc]
    IN [patches |-> change_status(s.patches, p, "idling"),
        cult_clock |-> s.cult_clock,
        idling_patches |-> [idl EXCEPT ![Group(p)] = p]]

\* Lines 138-142 and 156-160: patch p takes the idling slot of its group.
Occupy(ps, cc, idl, p) ==
    LET prev_idling_patch == idl[Group(p)]
        s == IF prev_idling_patch # NoPatch
             THEN start_cult_or_not(ps, cc, prev_idling_patch)
             ELSE [patches |-> ps, cult_clock |-> cc]
    IN [patches |-> change_status(s.patches, p, "idling"),
        cult_clock |-> s.cult_clock,
        idling_patches |-> [idl EXCEPT ![Group(p)] = p]]

\* np.random.choice([True, False], p=(prob, 1 - prob)): the outcomes that have
\* a positive probability.
Choice(prob) == {b \in BOOLEAN : (b /\ prob > 0) \/ (~b /\ prob < 100)}

\* ---------------------------------------------------------------- reduction
RECURSIVE SeqSum(_)
SeqSum(s) == IF s = <<>> THEN 0 ELSE Head(s) + SeqSum(Tail(s))

RECURSIVE SeqSumSq(_)
SeqSumSq(s) == IF s = <<>> THEN 0 ELSE Head(s) * Head(s) + SeqSumSq(Tail(s))

\* np.mean: NaN on an empty stream, else the rational sum/len.
Mean(s) ==
    IF Len(s) = 0 THEN [nan |-> TRUE, num |-> 0, den |-> 1]
    ELSE [nan |-> FALSE, num |-> SeqSum(s), den |-> Len(s)]

\* np.std(s, ddof=1) / np.sqrt(len(s)): NaN when len(s) < 2 (0/0 or x/0
\* under the square root), else the square root of the rational
\* (n*sum(x^2) - sum(x)^2) / (n^2 * (n-1)), kept squared.
StdErr(s) ==
    LET n == Len(s) IN
    IF n < 2 THEN [nan |-> TRUE, num |-> 0, den |-> 1]
    ELSE [nan |-> FALSE, num |-> n * SeqSumSq(s) - SeqSum(s) * SeqSum(s),
          den |-> n * n * (n - 1)]

\* Ts_intv[1:]
DropFirst(s) == IF s = <<>> THEN <<>> ELSE Tail(s)

\* --------------------------------------------------------------------- Init
\* The state simulate_msd builds before the loop (lines 92-103), and the
\* history variables at their start.
Constructed ==
    \* lines 92-97
    /\ patches = [p \in Patches |->
                    IF p = 1 \/ p = Nm + 1
                    THEN [status |-> "cult", clock |-> 0]
                    ELSE [status |-> None, clock |-> 0]]
    \* lines 99-103
    /\ idling_patches = [g \in Groups |-> NoPatch]
    /\ Ts_idle = <<>>
    /\ stage_clock = 0
    /\ cult_clock = [g \in Groups |-> 0]
    /\ Ts_intv = <<>>
    /\ consumable = FALSE
    /\ pc = "tick"
    /\ i = 0
    /\ result = [kind |-> "running"]
    /\ ticks = 0
    /\ last_start = [g \in Groups |-> 0]
    /\ fails = 0
    /\ displaced = NoPatch
    /\ rule = "init"
    /\ overtaken = [p \in Patches |-> 0]

Init ==
    /\ dcult \in 1 .. MaxD
    /\ dm \in 1 .. MaxD
    /\ Nm \in 1 .. MaxNm
    /\ psucc_cult \in {50, 100}
    /\ t_cult \in {8} \cup {8 * k - 3 : k \in 2 .. MaxTCult}
    \* Lines 79 and 147-150 read the two growth parameters only when
    \* dm > dcult; otherwise they keep the defaults of lines 24-25.
    /\ post_selected_growing \in (IF dm > dcult THEN BOOLEAN ELSE {TRUE})
    /\ psucc_growing \in (IF dm > dcult THEN {NoProb, 50, 100} ELSE {NoProb})
    /\ num_stages \in 1 .. MaxStages
    /\ Constructed

\* ------------------------------------------------------------------ actions
\* lines 113-120: the clocks advance and the tick's consumable flag is set.
Tick ==
    /\ pc = "tick"
    /\ stage_clock' = stage_clock + 1
    /\ cult_clock' = [g \in Groups |-> cult_clock[g] + 1]
    /\ patches' = [p \in Patches |-> [patches[p] EXCEPT !.clock = @ + 1]]
    /\ consumable' = Consumable(stage_clock + 1, Ts_intv)
    /\ pc' = "patch"
    /\ i' = 1
    /\ ticks' = ticks + 1
    /\ UNCHANGED <<params, idling_patches, Ts_idle, Ts_intv, result, last_start, fails, displaced, rule, overtaken>>

\* The loop of line 113, followed for at most MaxTicks ticks and no further
\* once more than MaxFails draws have come out False.
LoopTop == ticks < MaxTicks /\ fails <= MaxFails /\ Tick

\* The for loop of line 122 moves to the next patch, or on to line 167.
NextPatch ==
    /\ i' = IF i = 2 * Nm THEN 0 ELSE i + 1
    /\ pc' = IF i = 2 * Nm THEN "consume" ELSE "patch"

\* History: a group's last cultivation start is this tick if one of its
\* patches has just been set to "cult" with clock 0.
Started(ps, g) ==
    \E p \in Patches :
        /\ Group(p) = g
        /\ ps[p] = [status |-> "cult", clock |-> 0]
        /\ patches[p] # [status |-> "cult", clock |-> 0]

\* The state after the rule of patch i produced s = [patches, cult_clock]
\* and the idling slots idl.
Apply(s, idl, failed_draw, branch) ==
    /\ patches' = s.patches
    /\ cult_clock' = s.cult_clock
    /\ idling_patches' = idl
    /\ last_start' = [g \in Groups |->
                        IF Started(s.patches, g) THEN ticks ELSE last_start[g]]
    /\ fails' = IF failed_draw THEN fails + 1 ELSE fails
    /\ displaced' = IF idl[Group(i)] = idling_patches[Group(i)]
                    THEN NoPatch ELSE idling_patches[Group(i)]
    /\ rule' = branch
    /\ overtaken' = [p \in Patches |->
                        IF s.patches[p].status # None \/ patches[p].status # None
                        THEN 0
                        ELSE IF \E q \in 1 .. (p - 1) :
                                   /\ Group(q) = Group(p)
                                   /\ s.patches[q] = [status |-> "cult", clock |-> 0]
                                   /\ patches[q] # [status |-> "cult", clock |-> 0]
                        THEN overtaken[p] + 1
                        ELSE overtaken[p]]
    /\ NextPatch
    /\ UNCHANGED <<params, Ts_idle, Ts_intv, stage_clock, consumable, result, ticks>>

\* lines 123-124
PatchNone ==
    /\ pc = "patch"
    /\ patches[i].status = None
    /\ Apply(start_cult_or_not(patches, cult_clock, i), idling_patches, FALSE,
             "none")

\* Mutant of lines 126-145: the draw of line 128 is made on every tick (the
\* test of line 127 is lost).
CultDone_Ungated ==
    /\ pc = "patch"
    /\ patches[i].status = "cult" /\ patches[i].clock = T_cult
    /\ \E cult_success \in Choice(psucc_cult) :
         IF cult_success
         THEN IF need_growing
              THEN Apply([patches |-> change_status(patches, i, "growing"),
                          cult_clock |-> cult_clock], idling_patches, FALSE,
                         "cult_success")
              ELSE LET o == Occupy(patches, cult_clock, idling_patches, i)
                   IN Apply(o, o.idling_patches, FALSE, "cult_success")
         ELSE Apply(start_cult_or_not(patches, cult_clock, i), idling_patches,
                    TRUE, "cult_failure")

\* lines 126-145
CultDone ==
    /\ pc = "patch"
    /\ patches[i].status = "cult" /\ patches[i].clock = T_cult
    /\ \E cult_success \in (IF consumable \/ need_growing
                            THEN Choice(psucc_cult) ELSE {FALSE}) :
         IF cult_success
         THEN IF need_growing
              THEN Apply([patches |-> change_status(patches, i, "growing"),
                          cult_clock |-> cult_clock], idling_patches, FALSE,
                         "cult_success")
              ELSE LET o == Occupy(patches, cult_clock, idling_patches, i)
                   IN Apply(o, o.idling_patches, FALSE, "cult_success")
         ELSE Apply(start_cult_or_not(patches, cult_clock, i), idling_patches,
                    consumable \/ need_growing,
                    IF consumable \/ need_growing THEN "cult_failure"
                    ELSE "cult_forced_failure")

\* Mutant of lines 147-162: the draw of line 149 is made on every tick (the
\* test of line 148 is lost).
GrowingDone_Ungated ==
    /\ pc = "patch"
    /\ patches[i].status = "growing" /\ patches[i].clock = T_growing
    /\ psucc_growing # NoProb
    /\ \E growing_success \in Choice(psucc_growing) :
         IF growing_success
         THEN LET o == Occupy(patches, cult_clock, idling_patches, i)
              IN Apply(o, o.idling_patches, FALSE, "growing_success")
         ELSE Apply(start_cult_or_not(patches, cult_clock, i), idling_patches,
                    TRUE, "growing_failure")

\* lines 147-162, with a growth probability to draw with
GrowingDone ==
    /\ pc = "patch"
    /\ patches[i].status = "growing" /\ patches[i].clock = T_growing
    /\ ~(consumable /\ psucc_growing = NoProb)
    /\ \E growing_success \in (IF consumable
                               THEN Choice(psucc_growing) ELSE {FALSE}) :
         IF growing_success
         THEN LET o == Occupy(patches, cult_clock, idling_patches, i)
              IN Apply(o, o.idling_patches, FALSE, "growing_success")
         ELSE Apply(start_cult_or_not(patches, cult_clock, i), idling_patches,
                    consumable,
                    IF consumable THEN "growing_failure"
                    ELSE "growing_forced_failure")

\* lines 149-151 with psucc_growing = None: 1 - None raises TypeError.
GrowingTypeError ==
    /\ pc = "patch"
    /\ patches[i].status = "growing" /\ patches[i].clock = T_growing
    /\ consumable /\ psucc_growing = NoProb
    /\ pc' = "raised"
    /\ result' = [kind |-> "TypeError"]
    /\ UNCHANGED <<params, patches, idling_patches, Ts_idle, Ts_intv,
                   stage_clock, cult_clock, consumable, i, ticks, last_start, fails, displaced, rule, overtaken>>

\* Mutant of line 164: the cooldown lasts one tick longer.
Cooldown_Longer == dm + 2

\* Mutant of line 164: the cooldown ends one tick early.
Cooldown_Shorter == dm

\* line 164: the clock value at which a consumed patch is rescheduled
Cooldown == dm + 1

\* lines 164-165
ConsumedDone ==
    /\ pc = "patch"
    /\ patches[i].status = "consumed" /\ patches[i].clock = Cooldown
    /\ Apply(start_cult_or_not(patches, cult_clock, i), idling_patches, FALSE,
             "consumed")

\* No branch of lines 123-165 applies to patch i.
PatchSkip ==
    /\ pc = "patch"
    /\ patches[i].status # None
    /\ ~(patches[i].status = "cult" /\ patches[i].clock = T_cult)
    /\ ~(patches[i].status = "growing" /\ patches[i].clock = T_growing)
    /\ ~(patches[i].status = "consumed" /\ patches[i].clock = Cooldown)
    /\ Apply([patches |-> patches, cult_clock |-> cult_clock], idling_patches, FALSE,
             "skip")

\* line 167
CanConsume == consumable /\ \A group \in Groups : idling_patches[group] # NoPatch

\* Mutant of line 188: the loop runs one consumption too far (> for ==).
LoopExit_Beyond(intv) == Len(intv) > num_stages

\* line 188 on the interval stream intv
LoopExit(intv) == Len(intv) = num_stages

\* Mutant of lines 167-173: lines 172 and 173 are swapped, so the interval is
\* appended after the stage clock was reset.
Consume_ResetFirst ==
    /\ pc = "consume"
    /\ CanConsume
    /\ Ts_idle' = Ts_idle \o <<patches[idling_patches[0]].clock,
                               patches[idling_patches[1]].clock>>
    /\ patches' = change_status(change_status(patches, idling_patches[0], "consumed"),
                                idling_patches[1], "consumed")
    /\ idling_patches' = [g \in Groups |-> NoPatch]
    /\ Ts_intv' = Append(Ts_intv, 0)
    /\ stage_clock' = 0
    /\ pc' = IF LoopExit(Append(Ts_intv, 0)) THEN "return" ELSE "tick"
    /\ UNCHANGED <<params, cult_clock, consumable, i, result, ticks, last_start,
                   fails, displaced, rule, overtaken>>

\* Mutant of lines 167-173: line 173, the reset of the stage clock, is lost.
Consume_KeepStageClock ==
    /\ pc = "consume"
    /\ CanConsume
    /\ Ts_idle' = Ts_idle \o <<patches[idling_patches[0]].clock,
                               patches[idling_patches[1]].clock>>
    /\ patches' = change_status(change_status(patches, idling_patches[0], "consumed"),
                                idling_patches[1], "consumed")
    /\ idling_patches' = [g \in Groups |-> NoPatch]
    /\ Ts_intv' = Append(Ts_intv, stage_clock)
    /\ pc' = IF LoopExit(Append(Ts_intv, stage_clock)) THEN "return" ELSE "tick"
    /\ UNCHANGED <<params, stage_clock, cult_clock, consumable, i, result, ticks,
                   last_start, fails, displaced, rule, overtaken>>

\* lines 167-173, then the exit test of lines 188-189
Consume ==
    /\ pc = "consume"
    /\ CanConsume
    /\ Ts_idle' = Ts_idle \o <<patches[idling_patches[0]].clock,
                               patches[idling_patches[1]].clock>>
    /\ patches' = change_status(change_status(patches, idling_patches[0], "consumed"),
                                idling_patches[1], "consumed")
    /\ idling_patches' = [g \in Groups |-> NoPatch]
    /\ Ts_intv' = Append(Ts_intv, stage_clock)
    /\ stage_clock' = 0
    /\ pc' = IF LoopExit(Append(Ts_intv, stage_clock)) THEN "return" ELSE "tick"
    /\ UNCHANGED <<params, cult_clock, consumable, i, result, ticks, last_start, fails, displaced, rule, overtaken>>

\* line 167 false, then the exit test of lines 188-189
NoConsume ==
    /\ pc = "consume"
    /\ ~CanConsume
    /\ pc' = IF LoopExit(Ts_intv) THEN "return" ELSE "tick"
    /\ UNCHANGED <<params, patches, idling_patches, Ts_idle, Ts_intv, stage_clock,
                   cult_clock, consumable, i, result, ticks, last_start, fails, displaced, rule, overtaken>>

\* lines 191-192.  get_all is read nowhere but at line 191, so the caller's
\* choice of it is made here: ReturnAll is the call with get_all = True,
\* ReturnReduced the call with get_all = False.
ReturnAll ==
    /\ pc = "return"
    /\ result' = [kind |-> "all", intervals |-> DropFirst(Ts_intv),
                  idle_times |-> Ts_idle]
    /\ pc' = "returned"
    /\ UNCHANGED <<params, patches, idling_patches, Ts_idle, Ts_intv, stage_clock,
                   cult_clock, consumable, i, ticks, last_start, fails, displaced, rule, overtaken>>

\* lines 193-200
ReturnReduced ==
    /\ pc = "return"
    /\ result' = [kind |-> "reduced",
                  T_intv |-> Mean(DropFirst(Ts_intv)),
                  T_intv_se |-> StdErr(DropFirst(Ts_intv)),
                  T_idle |-> Mean(Ts_idle),
                  T_idle_se |-> StdErr(Ts_idle)]
    \* line 194 rebinds Ts_intv to Ts_intv[1:]
    /\ Ts_intv' = DropFirst(Ts_intv)
    /\ pc' = "returned"
    /\ UNCHANGED <<params, patches, idling_patches, Ts_idle, stage_clock,
                   cult_clock, consumable, i, ticks, last_start, fails, displaced, rule, overtaken>>

Next ==
    \/ LoopTop
    \/ PatchNone
    \/ CultDone
    \/ GrowingDone
    \/ GrowingTypeError
    \/ ConsumedDone
    \/ PatchSkip
    \/ Consume
    \/ NoConsume
    \/ ReturnAll
    \/ ReturnReduced

Spec == Init /\ [][Next]_vars

\* A number of ticks that no run within the bounds needs: every recorded
\* interval and every failed draw is allowed a full cooldown, cultivation
\* and growth.
LiveTicks == (MaxStages + MaxFails) * (MaxTCult + 2 * MaxD + 2)

\* The loop of line 113, followed until the run ends, and no further once
\* more than MaxFails draws have come out False.
LoopTopLive == ticks < LiveTicks /\ fails <= MaxFails /\ Tick

NextLive ==
    \/ LoopTopLive
    \/ PatchNone
    \/ CultDone
    \/ GrowingDone
    \/ GrowingTypeError
    \/ ConsumedDone
    \/ PatchSkip
    \/ Consume
    \/ NoConsume
    \/ ReturnAll
    \/ ReturnReduced

\* The function is single-threaded and has no suspension point (every
\* statement of the loop is followed by the next), hence weak fairness of the
\* whole step relation.
LiveSpec == Init /\ [][NextLive]_vars /\ WF_vars(NextLive)

\* The calls whose draws all succeed (both probabilities 1), with up to one
\* more patch per group than Init allows: these runs are deterministic.
SureInit ==
    /\ dcult \in 1 .. MaxD
    /\ dm \in 1 .. MaxD
    /\ Nm \in 1 .. MaxNm + 1
    /\ psucc_cult = 100
    /\ t_cult \in {8} \cup {8 * k - 3 : k \in 2 .. MaxTCult}
    /\ post_selected_growing \in (IF dm > dcult THEN BOOLEAN ELSE {TRUE})
    /\ psucc_growing \in (IF dm > dcult THEN {NoProb, 100} ELSE {NoProb})
    /\ num_stages \in 1 .. MaxStages + 1
    /\ Constructed

SureSpec == SureInit /\ [][NextLive]_vars /\ WF_vars(NextLive)

\* The calls of Init with up to one more patch per group: a third patch of
\* a group can start a cultivation in the tick in which another one takes
\* the group's occupied slot.
WideInit ==
    /\ dcult \in 1 .. MaxD
    /\ dm \in 1 .. MaxD
    /\ Nm \in 1 .. MaxNm + 1
    /\ psucc_cult \in {50, 100}
    /\ t_cult \in {8} \cup {8 * k - 3 : k \in 2 .. MaxTCult}
    /\ post_selected_growing \in (IF dm > dcult THEN BOOLEAN ELSE {TRUE})
    /\ psucc_growing \in (IF dm > dcult THEN {NoProb, 50, 100} ELSE {NoProb})
    /\ num_stages \in 1 .. MaxStages
    /\ Constructed

WideSpec == WideInit /\ [][Next]_vars

\* ------------------------------------------------------------------- claims
\* The reduced return has rebound Ts_intv to Ts_intv[1:] (line 194).
Rebound == pc = "returned" /\ result.kind = "reduced"

\* The intervals recorded after the first one: all but the first element of
\* Ts_intv, and all of it once line 194 has dropped the first.
LaterIntervals ==
    {Ts_intv[k] : k \in (IF Rebound THEN 1 ELSE 2) .. Len(Ts_intv)}

\* C1 (causal gate): every interval appended to Ts_intv other than the very
\* first one is strictly greater than dm.
C1_CausalGate == \A x \in LaterIntervals : x > dm

\* A second interval has been recorded.
C1_Witness == ~Rebound /\ Len(Ts_intv) >= 2 /\ Ts_intv[2] = dm + 1

\* C2 as claimed (positivity): every value of Ts_intv and every value of
\* Ts_idle is >= 1.
C2_PositivityClaimed ==
    /\ \A k \in 1 .. Len(Ts_intv) : Ts_intv[k] >= 1
    /\ \A k \in 1 .. Len(Ts_idle) : Ts_idle[k] >= 1

\* C2 as amended: every value of Ts_intv is >= 1 and every value of Ts_idle
\* is >= 0.
C2_PositivityAmended ==
    /\ \A k \in 1 .. Len(Ts_intv) : Ts_intv[k] >= 1
    /\ \A k \in 1 .. Len(Ts_idle) : Ts_idle[k] >= 0

\* A consumption recorded the idle time 0 for one patch of the pair and a
\* positive idle time for the other.
C2_Witness ==
    /\ Len(Ts_intv) >= 1
    /\ \E k \in 1 .. Len(Ts_idle) : Ts_idle[k] = 0
    /\ \E k \in 1 .. Len(Ts_idle) : Ts_idle[k] >= 1

\* The scenario of C3: no growth, one patch per group, sure success, t_cult = 8.
Scenario == dcult = dm /\ Nm = 1 /\ psucc_cult = 100 /\ t_cult = 8

\* C3 as claimed (scenario): T_cult = 1, Tm = 1 and every interval recorded
\* after the first one equals dm + 1.
C3_ScenarioClaimed ==
    Scenario => /\ T_cult = 1 /\ Tm = 1
                /\ \A x \in LaterIntervals : x = dm + 1

\* C3 as amended: T_cult = 1, Tm = 1, and every interval recorded after the
\* first one equals dm + 2 (dm + 1 ticks of cooldown and one tick of
\* cultivation), so the mean interval of a reduced result is dm + 2.
C3_ScenarioAmended ==
    Scenario =>
        /\ T_cult = 1 /\ Tm = 1
        /\ \A x \in LaterIntervals : x = dm + 2
        /\ (pc = "returned" /\ result.kind = "reduced" /\ ~result.T_intv.nan)
              => result.T_intv.num = (dm + 2) * result.T_intv.den

\* The scenario ran to a reduced result over two intervals after the first.
C3_Witness ==
    /\ Scenario /\ Rebound
    /\ Len(Ts_intv) >= 2

\* C4 (sample counts): Ts_idle always holds two entries per entry of Ts_intv;
\* the loop is left exactly when Ts_intv holds num_stages entries; raw mode
\* returns num_stages - 1 intervals and 2 * num_stages idle times.  (Once
\* line 194 has dropped the first interval, Ts_intv holds num_stages - 1
\* entries and Ts_idle the 2 * num_stages that were recorded.)
C4_SampleCounts ==
    /\ ~Rebound =>
          /\ Len(Ts_idle) = 2 * Len(Ts_intv)
          /\ Len(Ts_intv) <= num_stages
          /\ (pc \in {"return", "returned"}) <=> (Len(Ts_intv) = num_stages)
    /\ Rebound =>
          /\ Len(Ts_intv) = num_stages - 1
          /\ Len(Ts_idle) = 2 * num_stages
    /\ (pc = "returned" /\ result.kind = "all")
          => /\ Len(result.intervals) = num_stages - 1
             /\ Len(result.idle_times) = 2 * num_stages
             /\ result.idle_times = Ts_idle

\* A raw result of a run of at least two stages.
C4_Witness ==
    pc = "returned" /\ result.kind = "all" /\ num_stages >= 2

\* C5 (idling slot): in every state, a patch has status "idling" iff it is
\* the patch its group's slot references; so a group has at most one idling
\* patch, a displaced occupant is not idling, and an empty slot means no
\* patch of the group is idling.
C5_IdlingSlot ==
    /\ \A p \in Patches :
          (patches[p].status = "idling") <=> (idling_patches[Group(p)] = p)
    /\ \A g \in Groups :
          idling_patches[g] # NoPatch =>
              /\ idling_patches[g] \in Patches
              /\ Group(idling_patches[g]) = g
              /\ Cardinality({p \in Patches : Group(p) = g
                                  /\ patches[p].status = "idling"}) = 1

\* Inside a transition pass, the last step displaced the occupant of a slot.
C5_Witness ==
    /\ displaced # NoPatch
    /\ idling_patches[Group(displaced)] \notin {NoPatch, displaced}

\* Patch p is set to "cult" with clock 0 by the step.
EntersCult(p) ==
    /\ patches'[p] = [status |-> "cult", clock |-> 0]
    /\ patches[p] # [status |-> "cult", clock |-> 0]

\* C6 (throttle): a step that sets a patch to "cult" finds the group's
\* cultivation clock >= Tm and leaves it 0, sets no second patch of the group
\* to "cult", and comes at least Tm ticks after the group's previous start
\* (the initial one at tick 0 included).
C6_Throttle ==
    [][\A p \in Patches :
          EntersCult(p) =>
              /\ pc = "patch"
              /\ cult_clock[Group(p)] >= Tm
              /\ cult_clock'[Group(p)] = 0
              /\ \A q \in Patches \ {p} : Group(q) = Group(p) => ~EntersCult(q)
              /\ ticks - last_start[Group(p)] >= Tm
              /\ ticks - last_start[Group(p)] >= 1]_vars

\* A group with a stagger interval of at least 2 ticks has started a
\* cultivation after tick 0 while another of its patches waits in status None
\* with the group's cultivation clock still below Tm.
C6_Witness ==
    /\ Tm >= 2
    /\ \E p \in Patches :
          /\ patches[p].status = None
          /\ last_start[Group(p)] >= Tm
          /\ cult_clock[Group(p)] < Tm
          /\ cult_clock[Group(p)] >= 1

\* C7 (growth-stage skip): when dm <= dcult no patch ever has status
\* "growing".
C7_GrowthSkip ==
    dm <= dcult => \A p \in Patches : patches[p].status # "growing"

\* Without growth, a cultivation succeeded straight into the idling slot.
C7_Witness ==
    /\ dm <= dcult
    /\ \E p \in Patches : patches[p].status = "idling" /\ patches[p].clock = 0

\* C9 as claimed (missing growth probability): a call with dm > dcult and
\* psucc_growing = None that raises, raises InvalidParameter before any tick
\* has been executed.
C9_FailsBeforeLoop ==
    (pc = "raised" /\ need_growing /\ psucc_growing = NoProb)
        => result.kind = "InvalidParameter" /\ ticks = 0

\* C10 as claimed (insufficient samples): no reduced result tuple holds an
\* undefined mean or standard error.
C10_NoUndefinedResult ==
    (pc = "returned" /\ result.kind = "reduced")
        => /\ ~result.T_intv.nan /\ ~result.T_intv_se.nan
           /\ ~result.T_idle.nan /\ ~result.T_idle_se.nan

\* The states between two ticks and after the loop.
EndOfTick == pc \in {"tick", "return", "returned"}

\* The patches of group g with the given status.
WithStatus(g, status) ==
    {p \in Patches : Group(p) = g /\ patches[p].status = status}

\* C13 (gate on outcomes): a patch that has just become idling (clock 0) did
\* so on a consumable tick, and after the first consumption no patch is
\* idling and both slots are empty while the stage clock is <= dm.
C13_GateOnOutcomes ==
    /\ \A p \in Patches :
          (patches[p].status = "idling" /\ patches[p].clock = 0) => consumable
    /\ (Ts_idle # <<>> /\ stage_clock <= dm) =>
          /\ \A p \in Patches : patches[p].status # "idling"
          /\ \A g \in Groups : idling_patches[g] = NoPatch

\* After the first consumption, with the stage clock <= dm, a cultivation
\* that finished was failed without a draw.
C13_Witness ==
    /\ Ts_intv # <<>> /\ stage_clock <= dm /\ stage_clock >= 1
    /\ rule = "cult_forced_failure"

\* C14 (interval = ticks since the previous consumption): in every state of
\* the loop, and after it as long as Ts_intv holds all recorded intervals,
\* the recorded intervals and the stage clock add up to the ticks executed.
C14_IntervalsCountTicks == ~Rebound => SeqSum(Ts_intv) + stage_clock = ticks

\* Two intervals are recorded and a third is being counted.
C14_Witness ==
    ~Rebound /\ Len(Ts_intv) >= 2 /\ Ts_intv[2] >= 2 /\ stage_clock >= 1

\* The step makes patch i idling while the slot of its group is occupied.
Displaces ==
    /\ pc = "patch"
    /\ patches[i].status # "idling" /\ patches'[i].status = "idling"
    /\ idling_patches[Group(i)] # NoPatch

\* C15 (displacement): a step in which patch i succeeds into an occupied slot
\* reschedules the previous occupant q by start_cult_or_not (cult with clock
\* 0 and the group's cultivation clock reset if that clock is >= Tm, else
\* None with clock 0), then makes i the occupant, idling with clock 0, and
\* records no idle time; idle times are recorded only by a consumption, for
\* the two occupants of the slots.
C15_Displacement ==
    [][/\ Displaces =>
            LET g == Group(i)
                q == idling_patches[g]
            IN /\ q # i /\ Group(q) = g
               /\ cult_clock[g] >= Tm =>
                     /\ patches'[q] = [status |-> "cult", clock |-> 0]
                     /\ cult_clock'[g] = 0
               /\ cult_clock[g] < Tm =>
                     /\ patches'[q] = [status |-> None, clock |-> 0]
                     /\ cult_clock'[g] = cult_clock[g]
               /\ idling_patches'[g] = i
               /\ patches'[i] = [status |-> "idling", clock |-> 0]
               /\ displaced' = q
               /\ Ts_idle' = Ts_idle
       /\ Ts_idle' # Ts_idle =>
            /\ pc = "consume"
            /\ \A g \in Groups : patches[idling_patches[g]].status = "idling"
            /\ Ts_idle' = Ts_idle \o <<patches[idling_patches[0]].clock,
                                       patches[idling_patches[1]].clock>>]_vars

\* A success has just displaced an occupant that cannot start, a patch of
\* its group having started less than Tm ticks ago: the occupant is None with
\* clock 0 and the new patch holds the slot.  (This needs three patches in
\* the group; with two, the displaced occupant always cultivates again.)
C15_Witness ==
    /\ pc \in {"patch", "consume"}
    /\ rule \in {"cult_success", "growing_success"}
    /\ displaced # NoPatch
    /\ patches[displaced] = [status |-> None, clock |-> 0]
    /\ cult_clock[Group(displaced)] < Tm
    /\ idling_patches[Group(displaced)] \notin {NoPatch, displaced}

\* C16 (idling frame): a step leaves an idling patch idling, its clock
\* unchanged or one higher (the tick's increment), unless the step is the
\* consumption, which sets it to consumed, or the success of another patch of
\* its group, which takes its slot.
C16_IdlingFrame ==
    [][\A p \in Patches :
          patches[p].status = "idling" =>
              \/ /\ patches'[p].status = "idling"
                 /\ idling_patches'[Group(p)] = p
                 /\ IF pc = "tick"
                    THEN patches'[p].clock = patches[p].clock + 1
                    ELSE patches'[p].clock = patches[p].clock
              \/ /\ pc = "consume" /\ CanConsume
                 /\ patches'[p] = [status |-> "consumed", clock |-> 0]
              \/ /\ pc = "patch" /\ i # p /\ Group(i) = Group(p)
                 /\ patches[i].status \in {"cult", "growing"}
                 /\ patches'[i] = [status |-> "idling", clock |-> 0]
                 /\ idling_patches'[Group(p)] = i
                 /\ patches'[p].status \in {"cult", None}]_vars

\* The pass has gone by an idling patch that has waited two ticks already.
C16_Witness ==
    /\ pc = "patch"
    /\ \E p \in Patches :
          /\ p < i
          /\ patches[p].status = "idling" /\ patches[p].clock >= 2

\* C17 (pass-through duration): when growth is needed, T_growing is 1 without
\* post-selection and dm with it; without post-selection a growing patch has
\* clock <= 1 and none is left growing with clock 1 once its rule step ran.
C17_PassThrough ==
    need_growing =>
        /\ post_selected_growing => T_growing = dm
        /\ ~post_selected_growing =>
              /\ T_growing = 1
              /\ \A p \in Patches :
                    patches[p].status = "growing" =>
                        /\ patches[p].clock <= 1
                        /\ (EndOfTick \/ pc = "consume" \/ (pc = "patch" /\ p < i))
                              => patches[p].clock = 0

\* Without post-selection, a patch has left growing for idling one tick
\* after it entered.
C17_Witness ==
    /\ need_growing /\ ~post_selected_growing
    /\ pc \in {"patch", "consume"}
    /\ rule = "growing_success"

\* C18 (no overrun): between ticks every cultivating patch has clock < T_cult,
\* every growing patch clock < T_growing and every consumed patch clock <= dm.
C18_NoOverrun ==
    (EndOfTick \/ pc = "consume") =>
        \A p \in Patches :
            /\ patches[p].status = "cult" => patches[p].clock < T_cult
            /\ patches[p].status = "growing" => patches[p].clock < T_growing
            /\ patches[p].status = "consumed" => patches[p].clock <= dm

\* Between two ticks, a consumed patch is one tick from the end of its
\* cooldown and a growing patch one tick from the end of its growth.
C18_Witness ==
    /\ pc = "tick"
    /\ \E p \in Patches : patches[p] = [status |-> "consumed", clock |-> dm]
    /\ \E p \in Patches :
          patches[p].status = "growing" /\ patches[p].clock = T_growing - 1
                                        /\ patches[p].clock >= 1

\* C19 (immediate consumption): between ticks the two slots are never both
\* occupied, and of the two idle times of every consumption one is 0.
C19_ImmediateConsumption ==
    /\ EndOfTick => \E g \in Groups : idling_patches[g] = NoPatch
    /\ \A k \in 1 .. (Len(Ts_idle) \div 2) :
          Ts_idle[2 * k - 1] = 0 \/ Ts_idle[2 * k] = 0

\* A later consumption paired a patch that had idled two ticks or more with
\* one that became idling in the tick of the consumption.
C19_Witness ==
    \E k \in 2 .. (Len(Ts_idle) \div 2) :
        /\ Ts_idle[2 * k - 1] >= 2 /\ Ts_idle[2 * k] = 0

\* The pairing of C20 as a predicate on states: between ticks each group has
\* at most one consumed patch, group 0 has one iff group 1 has one, all
\* consumed patches have the same clock, which is <= dm; in every state a
\* consumed clock is <= dm + 1, and no patch is still consumed when the next
\* consumption happens.
CooldownPaired ==
    /\ \A p \in Patches :
          patches[p].status = "consumed" => patches[p].clock <= dm + 1
    /\ (EndOfTick \/ pc = "consume") =>
          /\ \A g \in Groups : Cardinality(WithStatus(g, "consumed")) <= 1
          /\ (WithStatus(0, "consumed") = {}) <=> (WithStatus(1, "consumed") = {})
          /\ \A p \in WithStatus(0, "consumed") : \A q \in WithStatus(1, "consumed") :
                patches[p].clock = patches[q].clock /\ patches[p].clock <= dm
    /\ (pc = "consume" /\ CanConsume) =>
          \A p \in Patches : patches[p].status # "consumed"

\* C20 (cooldown pairing): the pairing holds in every state, and a consumed
\* patch stays consumed for exactly dm + 1 ticks: a patch becomes consumed
\* only in the consumption step, with clock 0; while consumed its clock
\* changes only by the tick's increment of 1; and it leaves the status only
\* at its own step of the transition pass with clock dm + 1, where it does
\* leave, to cult or None with clock 0.
C20_CooldownPairing ==
    /\ []CooldownPaired
    /\ [][\A p \in Patches :
            /\ (patches[p].status # "consumed" /\ patches'[p].status = "consumed")
                  => (pc = "consume" /\ patches'[p].clock = 0)
            /\ patches[p].status = "consumed" =>
                  IF pc = "patch" /\ i = p /\ patches[p].clock = dm + 1
                  THEN /\ patches'[p].status \in {"cult", None}
                       /\ patches'[p].clock = 0
                  ELSE /\ patches'[p].status = "consumed"
                       /\ patches'[p].clock =
                             patches[p].clock + (IF pc = "tick" THEN 1 ELSE 0)]_vars

\* After the second consumption, the consumed patch of group 0 has just left
\* its cooldown at clock dm + 1 while the one of group 1 still waits for its
\* step of the same pass.
C20_Witness ==
    /\ pc = "patch" /\ rule = "consumed" /\ Len(Ts_idle) >= 4
    /\ i >= 2 /\ Group(i - 1) = 0
    /\ patches[i - 1].clock = 0 /\ patches[i - 1].status \in {"cult", None}
    /\ \E q \in WithStatus(1, "consumed") : patches[q].clock = dm + 1

\* The preconditions on the parameters that Init does not already impose:
\* the growth probability is given whenever growth is needed.
Preconditions == need_growing => psucc_growing # NoProb

\* C11 (termination): within the preconditions, a run in which at most
\* MaxFails draws come out False eventually leaves the loop and returns; the
\* loop is left only with num_stages intervals recorded (line 191 is reached
\* with Len(Ts_intv) = num_stages), never by an exception.
C11_Termination ==
    /\ <>(Preconditions => (pc = "returned" \/ fails > MaxFails))
    /\ [](Preconditions =>
            /\ pc = "return" => Len(Ts_intv) = num_stages
            /\ pc = "returned" => Len(Ts_idle) = 2 * num_stages
            /\ pc # "raised")

\* A run of MaxStages stages with growth has returned although MaxFails
\* draws failed.
C11_Witness ==
    /\ pc = "returned" /\ Len(Ts_idle) = 2 * num_stages
    /\ num_stages = MaxStages /\ need_growing /\ fails = MaxFails
    /\ ticks > MaxTicks

\* C12 (round-robin stagger without starvation), in the form a finite run
\* can refute: cultivation starts rotate over the patches of a group, so
\* while a patch waits with status None the lower-index patches of its group
\* start at most once each, Nm - 1 starts in all, before it starts itself.
C12_NoStarvation == \A p \in Patches : overtaken[p] <= Nm - 1

\* ------------------------------------------------------------ type invariant
TypeOK ==
    /\ patches \in [Patches -> [status : Statuses, clock : 0 .. MaxTicks]]
    /\ idling_patches \in [Groups -> Patches \cup {NoPatch}]
    /\ stage_clock \in 0 .. MaxTicks
    /\ cult_clock \in [Groups -> 0 .. MaxTicks]
    /\ pc \in {"tick", "patch", "consume", "return", "returned", "raised"}
    /\ Len(Ts_intv) <= num_stages
=============================================================================
